---- MODULE Spec2Model ----
(***************************************************************************)
(* The supplement check widget of src/SupplementCheck.tsx: three daily     *)
(* check marks held in React state, mirrored in localStorage under one     *)
(* key, and reset when the date string changes.                            *)
(*                                                                         *)
(* One action per event the component reacts to: the mount effect, the     *)
(* visibilitychange listener, a click on a slot card, and the clock.  A    *)
(* handler and the render that follows its state updates are one step,     *)
(* except that the render that follows the visibilitychange listener may   *)
(* come later, as a step of its own.                                       *)
(***************************************************************************)
EXTENDS Integers, FiniteSets, Sequences, TLC

\* Bounds of the model: the clock runs from 0 to MaxNow, in ticks of which
\* TicksPerDay make one calendar day of the date string.
MaxNow == 5
TicksPerDay == 2

\* Bound of the model: the user's timezone is at most MaxOffset ticks ahead
\* of or behind UTC.
MaxOffset == 1

\* type TimeSlot
Slots == {"morning", "lunch", "dinner"}

----------------------------------------------------------------------------
(* JavaScript values, as far as the component can tell them apart.         *)

JsUndefined == [type |-> "undefined"]
JsNull == [type |-> "null"]
JsObject(props) == [type |-> "object", props |-> props]

\* The keys a stored "checks" object can have: the slots, and "snack" for
\* any key that is no slot.
Keys == Slots \cup {"snack"}

\* The objects a "checks" property can hold after JSON.parse: any subset of
\* the keys, each a boolean.  interface CheckState promises the three slots
\* and nothing else.
PartialChecks == UNION {[D -> BOOLEAN] : D \in SUBSET Keys}
CheckValues == {JsObject(f) : f \in PartialChecks} \cup {JsUndefined}

\* { morning: false, lunch: false, dinner: false }
AllFalse == JsObject([s \in Slots |-> FALSE])

\* checks[slot]: a missing key reads as undefined, which is falsy.
ReadSlot(c, slot) == IF slot \in DOMAIN c.props THEN c.props[slot] ELSE FALSE

\* { ...checks, [slot]: !checks[slot] }
FlipSlot(c, slot) ==
    JsObject([k \in (DOMAIN c.props) \cup {slot} |->
                 IF k = slot THEN ~ReadSlot(c, slot) ELSE c.props[k]])

\* Object.values(checks).filter(Boolean).length
completedCount(c) == Cardinality({k \in DOMAIN c.props : c.props[k]})

\* Object.values(checks) throws a TypeError on undefined, so the component
\* renders only when checks is an object.
Renders(c) == c.type = "object"

----------------------------------------------------------------------------
(* Dates and the stored item.                                              *)

\* Date strings are numbered by day; NoDate is a missing "date" property.
NoDate == 0 - 1
DateOf(t) == t \div TicksPerDay
Dates == {DateOf(t) : t \in 0..MaxNow}

\* interface StoredData, as JSON.parse may really return it: date present or
\* not, checks any of CheckValues.  A parsed scalar or {} reads as
\* StoredData(NoDate, JsUndefined).
StoredData(date, c) == [type |-> "object", date |-> date, checks |-> c]
ParsedValues ==
    {StoredData(d, c) : d \in Dates \cup {NoDate}, c \in CheckValues}
        \cup {JsNull}

\* What localStorage.getItem returns: null when the key is absent, else the
\* stored string, told apart by what JSON.parse makes of it.
NoItem == [kind |-> "null"]
EmptyString == [kind |-> "string", text |-> "empty"]
NotJson == [kind |-> "string", text |-> "not json"]
stringify(value) == [kind |-> "string", text |-> "json", value |-> value]
Items == {NoItem, EmptyString, NotJson} \cup {stringify(v) : v \in ParsedValues}

\* if (storedJson): null and "" are falsy.
Truthy(item) == item # NoItem /\ item # EmptyString

\* JSON.parse throws a SyntaxError on text that is not JSON.
ParseThrows(item) == item.text # "json"
parse(item) == item.value

----------------------------------------------------------------------------
(* State.                                                                  *)

VARIABLES
    now,              \* the clock read by new Date(), in UTC
    timezoneOffset,   \* ticks by which the user's local time is ahead of UTC
    localStorage,     \* the item under 'supplement-check-data'
    checks,           \* useState<CheckState>
    lastDate,         \* useState<string>
    isLoaded,         \* useState(false)
    visibilityState,  \* document.visibilityState
    setItemCalls,     \* localStorage.setItem calls made by the latest handler
    checkedOn,        \* history: for each slot that is true in checks, the date
                      \* of the toggle that set it or of the snapshot it was
                      \* loaded from; NoDate for the other slots
    closure,          \* the checks and lastDate of the latest render, which
                      \* the toggleCheck of the rendered cards closes over
    pc,               \* "created": rendered, mount effect not yet run;
                      \* "mounted": effect done, listener registered;
                      \* "crashed": an error in the effect or in render has
                      \*            unmounted the component
    last              \* what the latest handler did and the state it ran in

vars ==
    <<now, timezoneOffset, localStorage, checks, lastDate, isLoaded, visibilityState,
      setItemCalls, checkedOn, closure, pc, last>>

\* new Date().toISOString().split('T')[0]: toISOString is in UTC.
getTodayString == DateOf(now)

\* The calendar date of now on the user's clock, as toLocaleDateString
\* displays it.
todayDisplay == (now + timezoneOffset) \div TicksPerDay

NoOp ==
    [op |-> "none", slot |-> "none", today |-> NoDate, checks |-> JsUndefined,
     lastDate |-> NoDate, item |-> NoItem, threw |-> FALSE,
     closure |-> [checks |-> JsUndefined, lastDate |-> NoDate]]

\* The record of a handler run: the state it started in, the values its
\* closure held, and whether an exception left the handler.
Ran(op, slot, threw) ==
    [op |-> op, slot |-> slot, today |-> getTodayString, checks |-> checks,
     lastDate |-> lastDate, item |-> localStorage, threw |-> threw,
     closure |-> closure]

\* The state after the first render, in a timezone among offsets.
Start(offsets) ==
    /\ now \in 0..MaxNow
    /\ timezoneOffset \in offsets
    /\ localStorage \in Items
    /\ checks = AllFalse
    /\ lastDate = getTodayString
    /\ isLoaded = FALSE
    /\ visibilityState = "visible"
    /\ setItemCalls = 0
    /\ checkedOn = [s \in Slots |-> NoDate]
    /\ closure = [checks |-> checks, lastDate |-> lastDate]
    /\ pc = "created"
    /\ last = NoOp

\* The user's clock is on UTC.
Init == Start({0})

\* The user's clock is in any timezone.
Offsets == (0 - MaxOffset)..MaxOffset
InitZones == Start(Offsets)

----------------------------------------------------------------------------
(* loadData                                                                *)

\* const newData = { date: today, checks: { morning: false, ... } }
newData(today) == StoredData(today, AllFalse)

\* A slip of DateChanged: the stored date is never compared.
DateChangedNever(storedData, today) == FALSE

\* A slip of DateChanged: every load is taken for a new day.
DateChangedAlways(storedData, today) == TRUE

\* if (storedData.date !== today)
DateChanged(storedData, today) == storedData.date # today

\* A slip of RestoredChecks: a same-day load starts over.
RestoredChecksCleared(storedData) == AllFalse

\* setChecks(storedData.checks)
RestoredChecks(storedData) == storedData.checks

\* A slip of setItem: the record is never written.
setItemSkipped(data, writeOk) == UNCHANGED localStorage /\ setItemCalls' = 0

\* localStorage.setItem(key, JSON.stringify(data)): the item is replaced, or
\* the call throws and the item stays.
setItem(data, writeOk) ==
    /\ localStorage' = IF writeOk THEN stringify(data) ELSE localStorage
    /\ setItemCalls' = 1

\* A handler path that does not call setItem.
noSetItem == UNCHANGED localStorage /\ setItemCalls' = 0

\* The history of checks after a reset, after a load from a snapshot, and
\* after a same-day toggle.
NoneChecked == [s \in Slots |-> NoDate]
LoadedFrom(storedData) ==
    [s \in Slots |->
        IF storedData.checks.type = "object" /\ ReadSlot(storedData.checks, s)
        THEN storedData.date ELSE NoDate]
ToggledOn(slot, c, today) ==
    [checkedOn EXCEPT ![slot] = IF ReadSlot(c, slot) THEN today ELSE NoDate]

\* The body of loadData.  readOk and writeOk say whether getItem and setItem
\* return or throw.  getItem is called outside the try block, so its
\* exception leaves loadData; everything after it is inside, and caught.
loadData(op, readOk, writeOk) ==
    LET today == getTodayString
        storedJson == localStorage
    IN  IF ~readOk
        THEN /\ UNCHANGED <<checks, lastDate, isLoaded, checkedOn>>
             /\ noSetItem
             /\ last' = Ran(op, "none", TRUE)
        ELSE IF Truthy(storedJson)
        THEN IF ParseThrows(storedJson) \/ parse(storedJson) = JsNull
             THEN \* JSON.parse or storedData.date threw: catch, console.error
                  /\ UNCHANGED <<checks, lastDate, checkedOn>>
                  /\ noSetItem
                  /\ isLoaded' = TRUE
                  /\ last' = Ran(op, "none", FALSE)
             ELSE LET storedData == parse(storedJson)
                  IN  IF DateChanged(storedData, today)
                      THEN /\ checks' = newData(today).checks
                           /\ checkedOn' = NoneChecked
                           /\ lastDate' = today
                           /\ setItem(newData(today), writeOk)
                           /\ isLoaded' = TRUE
                           /\ last' = Ran(op, "none", FALSE)
                      ELSE /\ checks' = RestoredChecks(storedData)
                           /\ checkedOn' = LoadedFrom(storedData)
                           /\ lastDate' = storedData.date
                           /\ noSetItem
                           /\ isLoaded' = TRUE
                           /\ last' = Ran(op, "none", FALSE)
        ELSE /\ lastDate' = today
             /\ UNCHANGED <<checks, checkedOn>>
             /\ noSetItem
             /\ isLoaded' = TRUE
             /\ last' = Ran(op, "none", FALSE)

\* A render of App with the state as the handler left it: toggleCheck is
\* created anew and closes over the new checks and lastDate, and
\* Object.values(checks) throws when checks is no object.
render ==
    /\ closure' = [checks |-> checks', lastDate |-> lastDate']
    /\ pc' = IF Renders(checks') THEN "mounted" ELSE "crashed"

\* useEffect(() => { loadData(); addEventListener(...) }, []).  An error
\* thrown by the effect, or by the render of the new state, unmounts the
\* component, which has no error boundary.
Mount(readOk, writeOk) ==
    /\ pc = "created"
    /\ loadData("mount", readOk, writeOk)
    /\ IF readOk THEN render ELSE UNCHANGED closure /\ pc' = "crashed"
    /\ UNCHANGED <<now, timezoneOffset, visibilityState>>

\* handleVisibilityChange: loadData when the document became visible.  The
\* listener is a native one: whether React renders the state it set before
\* the listener returns or in a later task is left to React, and deferred
\* says which.
handleVisibilityChange(readOk, writeOk, deferred) ==
    /\ pc = "mounted"
    /\ visibilityState' = IF visibilityState = "visible" THEN "hidden" ELSE "visible"
    /\ IF visibilityState' = "visible"
       THEN /\ loadData("visible", readOk, writeOk)
            /\ IF deferred THEN UNCHANGED <<closure, pc>> ELSE render
       ELSE /\ UNCHANGED <<checks, lastDate, isLoaded, checkedOn, closure, pc>>
            /\ noSetItem
            /\ last' = NoOp
    /\ UNCHANGED <<now, timezoneOffset>>

----------------------------------------------------------------------------
(* toggleCheck                                                             *)

\* A slip of Rolled: toggleCheck never notices the new day.
RolledNever(today) == FALSE

\* if (today !== lastDate), on the lastDate of the render the handler
\* belongs to
Rolled(today) == today # closure.lastDate

\* const newChecks = { ...checks, [slot]: !checks[slot] }, on the checks of
\* that render
newChecks(slot) == FlipSlot(closure.checks, slot)

\* A slip of CardsRendered: the cards are rendered before the first load.
CardsRenderedUnloaded == pc # "crashed"

\* if (!isLoaded) return null: the slot cards, and with them the click
\* handlers, exist only while the component is alive and isLoaded.
CardsRendered == pc # "crashed" /\ isLoaded

\* onToggle={() => toggleCheck(slot)}.  The state updates precede setItem,
\* whose exception leaves the handler.
toggleCheck(slot, writeOk) ==
    /\ CardsRendered
    /\ LET today == getTodayString
       IN  IF Rolled(today)
           THEN /\ checks' = newData(today).checks
                /\ checkedOn' = NoneChecked
                /\ lastDate' = today
                /\ setItem(newData(today), writeOk)
                /\ last' = Ran("toggle", slot, ~writeOk)
           ELSE /\ checks' = newChecks(slot)
                /\ checkedOn' = ToggledOn(slot, newChecks(slot), today)
                /\ lastDate' = lastDate
                /\ setItem(StoredData(today, newChecks(slot)), writeOk)
                /\ last' = Ran("toggle", slot, ~writeOk)
    /\ render
    /\ UNCHANGED <<now, timezoneOffset, isLoaded, visibilityState>>

----------------------------------------------------------------------------
(* The clock and the specifications.                                       *)

Tick ==
    /\ now < MaxNow
    /\ now' = now + 1
    /\ last' = NoOp
    /\ noSetItem
    /\ UNCHANGED <<timezoneOffset, checks, lastDate, isLoaded, visibilityState,
                   checkedOn, closure, pc>>

\* The render that React put off after a visibilitychange listener.
deferredRender ==
    /\ pc = "mounted"
    /\ closure # [checks |-> checks, lastDate |-> lastDate]
    /\ UNCHANGED <<now, timezoneOffset, checks, lastDate, isLoaded,
                   visibilityState, checkedOn>>
    /\ render
    /\ noSetItem
    /\ last' = NoOp

\* The store works: getItem and setItem return.
Next ==
    \/ Tick
    \/ Mount(TRUE, TRUE)
    \/ \E deferred \in BOOLEAN : handleVisibilityChange(TRUE, TRUE, deferred)
    \/ \E slot \in Slots : toggleCheck(slot, TRUE)
    \/ deferredRender

Spec == Init /\ [][Next]_vars

\* The store may fail: any getItem or setItem call may throw.  Renders
\* follow their handlers at once here.
NextFail ==
    \/ Tick
    \/ \E readOk, writeOk \in BOOLEAN : Mount(readOk, writeOk)
    \/ \E readOk, writeOk \in BOOLEAN :
           handleVisibilityChange(readOk, writeOk, FALSE)
    \/ \E slot \in Slots, writeOk \in BOOLEAN : toggleCheck(slot, writeOk)

SpecFail == Init /\ [][NextFail]_vars

\* The store works and the user is in any timezone.
SpecZones == InitZones /\ [][Next]_vars

----------------------------------------------------------------------------
(* Properties.                                                             *)

\* The item parses to an object (a record, well formed or not).
IsRecord(item) ==
    /\ Truthy(item)
    /\ ~ParseThrows(item)
    /\ parse(item).type = "object"

\* A checks object with exactly the three slots.
WellFormedChecks(c) == c.type = "object" /\ DOMAIN c.props = Slots

\* The item is a record as the component writes it.
WellFormed(item) ==
    /\ IsRecord(item)
    /\ parse(item).date \in Dates
    /\ WellFormedChecks(parse(item).checks)

Loaded == last.op \in {"mount", "visible"}

\* C1: a reconcile (mount or became-visible load) that finds a record dated
\* D1 while today is D2 # D1 leaves checks all false, lastDate = D2 and the
\* store holding {date: D2, checks: all false}.
C1_RolloverResetOnReconcile ==
    (/\ Loaded
     /\ IsRecord(last.item)
     /\ parse(last.item).date \in Dates
     /\ parse(last.item).date # last.today)
    => /\ checks = AllFalse
       /\ lastDate = last.today
       /\ localStorage = stringify(StoredData(last.today, AllFalse))

\* A became-visible load has reset checks that were set on the stored day.
C1_Witness ==
    /\ last.op = "visible"
    /\ WellFormed(last.item)
    /\ parse(last.item).date # last.today
    /\ parse(last.item).checks # AllFalse
    /\ last.checks = parse(last.item).checks
    /\ checks = AllFalse
    /\ lastDate = last.today

\* C2: toggle(X) run when today differs from lastDate leaves checks all
\* false (X is not set), lastDate = today and the store holding
\* {date: today, checks: all false}.
C2_StaleToggleDiscarded ==
    (last.op = "toggle" /\ last.today # last.lastDate)
    => /\ checks = AllFalse
       /\ ~ReadSlot(checks, last.slot)
       /\ lastDate = last.today
       /\ localStorage = stringify(StoredData(last.today, AllFalse))

\* A stale toggle of an unset slot, with another slot set, has reset all.
C2_Witness ==
    /\ last.op = "toggle"
    /\ last.today # last.lastDate
    /\ WellFormedChecks(last.checks)
    /\ ~ReadSlot(last.checks, last.slot)
    /\ last.checks # AllFalse
    /\ checks = AllFalse

\* C3: toggle(X) run when lastDate = today negates X, leaves every other
\* slot as it was (present or missing), keeps lastDate, and leaves the store
\* holding exactly {date: today, checks: the new checks}.
C3_SameDayToggleFlipsOne ==
    (last.op = "toggle" /\ last.today = last.lastDate)
    => /\ checks.type = "object"
       /\ DOMAIN checks.props = (DOMAIN last.checks.props) \cup {last.slot}
       /\ ReadSlot(checks, last.slot) = ~ReadSlot(last.checks, last.slot)
       /\ \A s \in (DOMAIN last.checks.props) \ {last.slot} :
              checks.props[s] = last.checks.props[s]
       /\ lastDate = last.today
       /\ localStorage = stringify(StoredData(last.today, checks))

\* C4: a reconcile that finds a well-formed record dated today leaves checks
\* equal to the record's checks, lastDate = today and the store unchanged;
\* hence so does every further reconcile on that day.
C4_SameDayReconcileIdempotent ==
    (/\ Loaded
     /\ WellFormed(last.item)
     /\ parse(last.item).date = last.today)
    => /\ checks = parse(last.item).checks
       /\ lastDate = last.today
       /\ localStorage = last.item

\* A became-visible load repeated on a state already loaded from that
\* record, with a slot set.
C4_Witness ==
    /\ last.op = "visible"
    /\ WellFormed(last.item)
    /\ parse(last.item).date = last.today
    /\ last.checks = parse(last.item).checks
    /\ last.lastDate = last.today
    /\ checks = last.checks
    /\ checks # AllFalse
    /\ localStorage = last.item

\* C5: once loaded, whenever the store holds a well-formed record, its date
\* is lastDate and its checks are the in-memory checks.
C5_MemoryMatchesStore ==
    (isLoaded /\ WellFormed(localStorage))
    => /\ parse(localStorage).date = lastDate
       /\ parse(localStorage).checks = checks

\* After a toggle on a day later than day 0, memory and store agree on a
\* state with a slot set.
C5_Witness ==
    /\ isLoaded
    /\ last.op = "toggle"
    /\ WellFormed(localStorage)
    /\ parse(localStorage).date = lastDate
    /\ parse(localStorage).checks = checks
    /\ checks # AllFalse
    /\ lastDate > 0

\* The stored value is malformed: not parseable, not an object, or an object
\* without a date or without checks.
Malformed(item) ==
    /\ item # NoItem
    /\ \/ item = EmptyString
       \/ ParseThrows(item)
       \/ parse(item) = JsNull
       \/ parse(item).date = NoDate
       \/ parse(item).checks = JsUndefined

\* C6: a reconcile that finds a malformed value, at mount or on a later
\* became-visible event, completes without throwing and leaves checks all
\* false and lastDate = today, as if there were no snapshot.
C6_MalformedDataResilience ==
    (Loaded /\ Malformed(last.item))
    => /\ ~last.threw
       /\ pc = "mounted"
       /\ checks = AllFalse
       /\ lastDate = last.today

\* The stored checks with every missing slot set to false.
Repaired(c) == JsObject([s \in Slots |-> ReadSlot(c, s)])

\* C7: while the component is mounted, checks has exactly the three slots,
\* each a boolean; a reconcile of a same-day record whose checks lack slot
\* keys loads the slots present and sets the missing ones to false.
C7_ThreeSlotsWithRepair ==
    /\ pc # "crashed" => WellFormedChecks(checks)
    /\ (/\ Loaded
        /\ IsRecord(last.item)
        /\ parse(last.item).date = last.today
        /\ parse(last.item).checks.type = "object")
       => checks = Repaired(parse(last.item).checks)

\* C8: a reconcile that finds the store empty, whatever checks and lastDate
\* were, sets lastDate = today and checks all false and writes nothing.
C8_ReconcileWithNoSnapshot ==
    (Loaded /\ ~last.threw /\ last.item = NoItem)
    => /\ lastDate = last.today
       /\ checks = AllFalse
       /\ setItemCalls = 0
       /\ localStorage = NoItem

\* C9: when getItem or setItem throws, no exception leaves the handler, the
\* component stays mounted, and a toggle still has its in-memory effect.
C9_StoreFailuresContained ==
    /\ ~last.threw
    /\ (last.op = "mount" => pc # "crashed" \/ ~Renders(checks))
    /\ last.op = "toggle"
       => /\ lastDate = last.today
          /\ checks = IF last.today # last.lastDate
                      THEN AllFalse
                      ELSE FlipSlot(last.checks, last.slot)

\* C10: whatever the store held and however it failed, once the mount effect
\* has run the component is loaded, mounted and renders its checks.
C10_StartupEndsUsable ==
    last.op = "mount" => (isLoaded /\ pc = "mounted" /\ Renders(checks))

\* C13: every toggleCheck call makes exactly one localStorage.setItem call,
\* in the same-day branch and in the rollover branch alike.
C13_ToggleWritesOnce ==
    last.op = "toggle" => setItemCalls = 1

\* A toggle in the rollover branch has made its one write, replacing a record
\* of the earlier day.
C13_Witness ==
    /\ last.op = "toggle"
    /\ last.today # last.lastDate
    /\ WellFormed(last.item)
    /\ parse(last.item).date = last.lastDate
    /\ setItemCalls = 1
    /\ localStorage # last.item

\* The number of slots that read true.
TrueSlots(c) == Cardinality({s \in Slots : ReadSlot(c, s)})

\* C14: while the component is mounted, whatever record the state was loaded
\* from, the completion count is the number of slots among morning, lunch and
\* dinner that are true, and lies in 0..3.
C14_CompletionCount ==
    (pc # "crashed" /\ Renders(checks))
    => /\ completedCount(checks) = TrueSlots(checks)
       /\ completedCount(checks) \in 0..3

\* C15: every value written to the store is a record with a date and checks,
\* checks having exactly the boolean fields morning, lunch and dinner and
\* date being today at the time of the write.
C15_PersistedFormat ==
    (last.op # "none" /\ setItemCalls = 1)
    => /\ WellFormed(localStorage)
       /\ parse(localStorage).date = last.today

ToggledTwice ==
    /\ last.op = "toggle"
    /\ last.today = last.lastDate
    /\ last'.op = "toggle"
    /\ last'.slot = last.slot
    /\ last'.today = last.today

\* C18: two consecutive toggle(X) calls on one day return the in-memory
\* checks to the state S before the first and leave the store holding
\* {date: today, checks: S}.
C18_ToggleInvolution ==
    [][ToggledTwice
       => /\ checks' = last.checks
          /\ localStorage' = stringify(StoredData(last.today, last.checks))]_vars

\* C19: a toggleCheck call is processed only after the mount effect has run
\* loadData and set isLoaded; the component it ran in is loaded and mounted.
C19_NoToggleBeforeFirstLoad ==
    last.op = "toggle" => (isLoaded /\ pc = "mounted")

\* A toggle has acted on checks that the load restored from the store.
C19_Witness ==
    /\ last.op = "toggle"
    /\ isLoaded
    /\ pc = "mounted"
    /\ WellFormed(last.item)
    /\ last.checks = parse(last.item).checks
    /\ last.checks # AllFalse
    /\ last.today = last.lastDate

\* C16: after a reconcile that read the store, or a toggle, run on date D,
\* every slot that is true in memory was set by a toggle run on D or loaded
\* from a snapshot dated D; no check of an earlier date is carried over.
C16_NoCheckSurvivesDateChange ==
    (last.op # "none" /\ ~(Loaded /\ last.threw) /\ pc # "crashed")
    => \A s \in Slots : ReadSlot(checks, s) => checkedOn[s] = last.today

\* C12: the date string that a reconcile or a toggle uses as today, and
\* writes to the store, is the calendar date of now in the user's timezone.
C12_LocalTimeDateKey ==
    last.op # "none"
    => /\ last.today = todayDisplay
       /\ setItemCalls = 1 => parse(localStorage).date = todayDisplay

\* C11: a toggle that follows a became-visible reconcile is processed
\* against the checks and lastDate that the reconcile produced, never against
\* the values of the render before it.
C11_ToggleSeesReconciledState ==
    last.op = "toggle"
    => last.closure = [checks |-> last.checks, lastDate |-> last.lastDate]

====
